---- MODULE Spec2Model ----
(***************************************************************************)
(* Banking backend: seven stateless request handlers (signup,              *)
(* create-account, get-balance, get-transactions, get-profile, transfer,   *)
(* create-transaction-or-transfer) over a relational store (profiles,      *)
(* accounts, transactions, transfers) and an identity provider.            *)
(*                                                                         *)
(* Every `await` on the store or the identity provider is one step of a    *)
(* request, so the steps of two requests can interleave.  A request is     *)
(* served by a process p: it is accepted (pc[p] leaves "idle"), runs its   *)
(* steps and ends in pc[p] = "done" with its response in resp[p].          *)
(* Each call on the store may fail (ok = FALSE): the call then has no      *)
(* effect and returns an error, and what the handler does with that error  *)
(* is what the handler's code does with it.                                *)
(*                                                                         *)
(* Money is counted in minor units (integers).  accounts is keyed by the   *)
(* account number; the handlers that address a row by `id` address the     *)
(* same row, so id and account_number are one key here.                    *)
(***************************************************************************)
EXTENDS Integers, Sequences, FiniteSets, TLC

\* ------------------------------------------------------------------ bounds
MaxAmount == 2
MaxBalance == 2

\* ------------------------------------------------------------- input sets
Procs == {1, 2}
SeqProcs == {1}

NULL == "null"
Amounts == 0..MaxAmount
Balances == 0..MaxBalance
AcctNums == {"A", "B", "S", "C", "D"}
Refs == {"r1", "r2", "r3"}
Callers == {"u1", "u2"}
Auths == {"none", "bad"} \cup Callers

VARIABLES
  users,        \* identity provider: the ids of the registered users
  profiles,     \* profiles table: user id -> full_name
  accounts,     \* accounts table: account number -> row
  transactions, \* transactions table: sequence of rows
  transfers,    \* transfers table: sequence of rows
  pc,           \* per request process: the step it is at
  req,          \* per request process: the request it serves
  loc,          \* per request process: the handler's local variables
  resp,         \* per request process: the response it returned
  pre,          \* per request process: the store when the request arrived
  trail         \* per request process: what the request has done so far

dbvars == <<users, profiles, accounts, transactions, transfers>>
vars == <<users, profiles, accounts, transactions, transfers,
          pc, req, loc, resp, pre, trail>>

\* ------------------------------------------------------------ record shapes
NoReq ==
  [handler |-> "-", method |-> "-", auth |-> "none",
   account_number |-> NULL, to_account_number |-> NULL, amount |-> 0,
   type |-> "-", reference_number |-> NULL, user_id |-> NULL,
   email |-> NULL, password |-> NULL, full_name |-> NULL, account_type |-> "-",
   initial_deposit |-> 0]

NoLoc ==
  [from |-> NULL, fromBalance |-> 0, to |-> NULL, toBalance |-> 0,
   refNumber |-> NULL, error |-> "-"]

NoResp == [status |-> 0, error |-> "-", by |-> "-", account |-> NULL]

Store ==
  [users |-> users, profiles |-> profiles, accounts |-> accounts,
   transactions |-> transactions, transfers |-> transfers]

\* ------------------------------------------------------------ store queries
\* getUser taking the token for the user without asking the provider.
getUserUnverified(auth) == auth

\* supabase.auth.getUser(token): the user of a token the provider accepts.
getUser(auth) == IF auth \in users THEN auth ELSE NULL

\* SelectAccounts without the .eq('user_id', ...) filter.
SelectAccountsAnyOwner(key, uid, status) ==
  {a \in DOMAIN accounts :
     /\ key = "*" \/ a = key
     /\ status = "*" \/ accounts[a].status = status}

\* accounts rows matching .eq(key).eq('user_id', uid).eq('status', status);
\* "*" leaves a column unfiltered.
SelectAccounts(key, uid, status) ==
  {a \in DOMAIN accounts :
     /\ key = "*" \/ a = key
     /\ uid = "*" \/ accounts[a].user_id = uid
     /\ status = "*" \/ accounts[a].status = status}

\* reference_number text UNIQUE NOT NULL, on a table's rows
RefFree(rows, ref) ==
  /\ ref # NULL
  /\ \A i \in 1..Len(rows) : rows[i].reference_number # ref

\* The balance check with its operands swapped.
insufficientFundsSwapped(balance, amount) == amount < balance

\* The balance check of a withdrawal or a transfer: balance < amount
insufficientFunds(balance, amount) == balance < amount

\* The ownership check left out.
isOwnerAlways(user_id, userId) == TRUE

\* The ownership check of get-balance: account.user_id !== userId refuses
isOwner(user_id, userId) == user_id = userId

\* ------------------------------------------------------------- responses
Goto(p, label) == pc' = [pc EXCEPT ![p] = label]

\* A response built by the handler: JSON body, CORS headers.
Reply(p, status, error) ==
  /\ resp' = [resp EXCEPT ![p] =
                [status |-> status, error |-> error, by |-> "handler",
                 account |-> NULL]]
  /\ Goto(p, "done")

\* A success response carrying the data of an account.
ReplyData(p, status, account) ==
  /\ resp' = [resp EXCEPT ![p] =
                [status |-> status, error |-> "", by |-> "handler",
                 account |-> account]]
  /\ Goto(p, "done")

\* The handler's catch block: 500, {error: error.message}, CORS headers.
Catch(p) == Reply(p, 500, "database error")

\* An error that leaves the handler: the runtime answers for it.
Escape(p) ==
  /\ resp' = [resp EXCEPT ![p] =
                [status |-> 500, error |-> "Internal Server Error",
                 by |-> "runtime", account |-> NULL]]
  /\ Goto(p, "done")

Mark(p, events) == trail' = [trail EXCEPT ![p] = @ \cup events]

\* What a call on the store leaves in the trail: that the store was
\* called and, when the call returned an error, that it did.
Called(ok) == IF ok THEN {"store"} ELSE {"store", "error"}

\* The same for a call whose error the handler throws.
Threw(ok) == IF ok THEN {"store"} ELSE {"store", "error", "thrown"}

\* The request r arrives at process p.
Accept(p, r) ==
  /\ pc[p] = "idle"
  /\ req' = [req EXCEPT ![p] = r]
  /\ pre' = [pre EXCEPT ![p] = Store]

\* ------------------------------------------------------------------- Init
Init ==
  /\ users = {"u1", "u2"}
  /\ profiles = [u \in {"u1", "u2"} |-> IF u = "u1" THEN "n1" ELSE "n2"]
  /\ \E a \in Balances, b \in Balances :
       accounts =
         [n \in {"A", "B", "S"} |->
            [user_id |-> IF n = "B" THEN "u2" ELSE "u1",
             account_type |-> "Current",
             balance |-> CASE n = "A" -> a [] n = "B" -> b [] OTHER -> 1,
             status |-> IF n = "S" THEN "suspended" ELSE "active"]]
  /\ transactions =
       << [account_number |-> "S", type |-> "deposit", amount |-> 1,
           balance_after |-> 1, reference_number |-> "r1"] >>
  /\ transfers = << >>
  /\ pc = [p \in Procs |-> "idle"]
  /\ req = [p \in Procs |-> NoReq]
  /\ loc = [p \in Procs |-> NoLoc]
  /\ resp = [p \in Procs |-> NoResp]
  /\ pre = [p \in Procs |-> Store]
  /\ trail = [p \in Procs |-> {}]

\* ================================================================ transfer
\* The transfer handler (from_account_id, to_account_number, amount).
TransferRequests ==
  {[NoReq EXCEPT !.handler = "transfer", !.method = "OPTIONS"]} \cup
  {[NoReq EXCEPT !.handler = "transfer", !.method = "POST", !.auth = au,
                 !.account_number = f, !.to_account_number = t, !.amount = am] :
     au \in Auths, f \in AcctNums, t \in AcctNums, am \in Amounts}

\* The handler up to its first call on the store, serving the request r.
Transfer_serve(p, r) ==
  /\ Accept(p, r)
  /\ IF r.method = "OPTIONS" THEN Reply(p, 200, "")
     ELSE IF r.auth = "none" THEN Reply(p, 401, "Missing authorization header")
     ELSE IF getUser(r.auth) = NULL THEN Reply(p, 401, "Unauthorized")
     ELSE IF r.amount <= 0 THEN Reply(p, 400, "Amount must be greater than 0")
     ELSE Goto(p, "transfer_fromAccount") /\ UNCHANGED resp
  /\ UNCHANGED <<dbvars, loc, trail>>

Transfer(p) == \E r \in TransferRequests : Transfer_serve(p, r)

Transfer_fromAccount(p) ==
  /\ pc[p] = "transfer_fromAccount"
  /\ \E ok \in BOOLEAN :
       LET rows == SelectAccounts(req[p].account_number, getUser(req[p].auth), "active")
       IN  IF ~ok \/ rows = {}
           THEN /\ Reply(p, 404, "Source account not found or inactive")
                /\ Mark(p, Called(ok))
                /\ UNCHANGED loc
           ELSE LET a == CHOOSE x \in rows : TRUE
                IN  /\ Mark(p, Called(ok) \cup {"sourceRead"})
                    /\ IF insufficientFunds(accounts[a].balance, req[p].amount)
                       THEN Reply(p, 400, "Insufficient funds") /\ UNCHANGED loc
                       ELSE /\ loc' = [loc EXCEPT ![p].from = a,
                                                  ![p].fromBalance = accounts[a].balance]
                            /\ Goto(p, "transfer_toAccount")
                            /\ UNCHANGED resp
  /\ UNCHANGED <<dbvars, req, pre>>

Transfer_toAccount(p) ==
  /\ pc[p] = "transfer_toAccount"
  /\ \E ok \in BOOLEAN :
       LET rows == SelectAccounts(req[p].to_account_number, "*", "active")
       IN  /\ Mark(p, Called(ok))
           /\ IF ~ok \/ rows = {}
              THEN /\ Reply(p, 404, "Destination account not found or inactive")
                   /\ UNCHANGED loc
              ELSE LET a == CHOOSE x \in rows : TRUE
                   IN  IF loc[p].from = a
                       THEN /\ Reply(p, 400, "Cannot transfer to the same account")
                            /\ UNCHANGED loc
                       ELSE /\ loc' = [loc EXCEPT ![p].to = a,
                                                  ![p].toBalance = accounts[a].balance]
                            /\ Goto(p, "transfer_refNumber")
                            /\ UNCHANGED resp
  /\ UNCHANGED <<dbvars, req, pre>>

\* generate_reference_number(): 'REF' || date || six random digits; the
\* values one call can return.
generate_reference_number == Refs

Transfer_refNumber(p) ==
  /\ pc[p] = "transfer_refNumber"
  /\ \E ok \in BOOLEAN, ref \in generate_reference_number :
       /\ loc' = [loc EXCEPT ![p].refNumber = IF ok THEN ref ELSE NULL]
       /\ Mark(p, Called(ok))
  /\ Goto(p, "transfer_updateFrom")
  /\ UNCHANGED <<dbvars, req, resp, pre>>

Transfer_updateFrom(p) ==
  /\ pc[p] = "transfer_updateFrom"
  /\ \E ok \in BOOLEAN :
       IF ok
       THEN /\ accounts' = [accounts EXCEPT ![loc[p].from].balance =
                              loc[p].fromBalance - req[p].amount]
            /\ Mark(p, {"debit"})
            /\ Goto(p, "transfer_updateTo")
            /\ UNCHANGED resp
       ELSE /\ Catch(p)
            /\ Mark(p, {"error", "thrown"})
            /\ UNCHANGED accounts
  /\ UNCHANGED <<users, profiles, transactions, transfers, req, loc, pre>>

Transfer_updateTo(p) ==
  /\ pc[p] = "transfer_updateTo"
  /\ \E ok \in BOOLEAN :
       IF ok
       THEN /\ accounts' = [accounts EXCEPT ![loc[p].to].balance =
                              loc[p].toBalance + req[p].amount]
            /\ Mark(p, {"credit"})
            /\ Goto(p, "transfer_insertTransfer")
       ELSE /\ Mark(p, {"error", "creditFailed"})
            /\ Goto(p, "transfer_rollback")
            /\ UNCHANGED accounts
  /\ UNCHANGED <<users, profiles, transactions, transfers, req, resp, loc, pre>>

\* The rollback of the source account; its outcome is not looked at, and
\* the credit's error is thrown to the catch block either way.
Transfer_rollback(p) ==
  /\ pc[p] = "transfer_rollback"
  /\ \E ok \in BOOLEAN :
       IF ok
       THEN /\ accounts' = [accounts EXCEPT ![loc[p].from].balance =
                              loc[p].fromBalance]
            /\ Mark(p, {"rollback", "thrown"})
       ELSE /\ Mark(p, {"rollbackFailed", "thrown"})
            /\ UNCHANGED accounts
  /\ Catch(p)
  /\ UNCHANGED <<users, profiles, transactions, transfers, req, loc, pre>>

\* transfers: amount > 0, reference_number UNIQUE NOT NULL,
\* different_accounts, both accounts exist.
TransferInsertable(row) ==
  /\ row.amount > 0
  /\ RefFree(transfers, row.reference_number)
  /\ row.from_account # row.to_account
  /\ row.from_account \in DOMAIN accounts
  /\ row.to_account \in DOMAIN accounts

\* transactions: type and amount checks, reference_number UNIQUE NOT NULL
\* (among the stored rows and among the rows of one insert), account exists.
\* An insert of several rows is one statement: all rows or none.
TransactionsInsertable(rows) ==
  /\ \A i \in 1..Len(rows) :
       /\ rows[i].type \in {"deposit", "withdrawal", "transfer"}
       /\ rows[i].amount > 0
       /\ RefFree(transactions, rows[i].reference_number)
       /\ rows[i].account_number \in DOMAIN accounts
  /\ \A i, j \in 1..Len(rows) :
       i # j => rows[i].reference_number # rows[j].reference_number

TransferRow(from, to, amount, ref) ==
  [from_account |-> from, to_account |-> to, amount |-> amount,
   reference_number |-> ref, status |-> "completed"]

TransactionRow(account, type, amount, balance_after, ref) ==
  [account_number |-> account, type |-> type, amount |-> amount,
   balance_after |-> balance_after, reference_number |-> ref]

Transfer_insertTransfer(p) ==
  /\ pc[p] = "transfer_insertTransfer"
  /\ \E ok \in BOOLEAN :
       LET row == TransferRow(loc[p].from, loc[p].to, req[p].amount, loc[p].refNumber)
       IN  IF ok /\ TransferInsertable(row)
           THEN /\ transfers' = Append(transfers, row)
                /\ Mark(p, {"transferRow"})
                /\ Goto(p, "transfer_insertTransactions")
                /\ UNCHANGED resp
           ELSE /\ Catch(p)
                /\ Mark(p, {"error", "thrown"})
                /\ UNCHANGED transfers
  /\ UNCHANGED <<users, profiles, accounts, transactions, req, loc, pre>>

\* The two transaction records; the source's amount is -amount.  The
\* outcome of the insert is not looked at.
Transfer_insertTransactions(p) ==
  /\ pc[p] = "transfer_insertTransactions"
  /\ \E ok \in BOOLEAN :
       LET rows ==
             << TransactionRow(loc[p].from, "transfer", -req[p].amount,
                               loc[p].fromBalance - req[p].amount, loc[p].refNumber),
                TransactionRow(loc[p].to, "transfer", req[p].amount,
                               loc[p].toBalance + req[p].amount, loc[p].refNumber) >>
       IN  IF ok /\ TransactionsInsertable(rows)
           THEN /\ transactions' = transactions \o rows
                /\ Mark(p, {"transactionRows"})
           ELSE /\ Mark(p, {"error"})
                /\ UNCHANGED transactions
  /\ Reply(p, 200, "")
  /\ UNCHANGED <<users, profiles, accounts, transfers, req, loc, pre>>

\* ========================================= create-transaction-or-transfer
\* body.type = 'transfer' is a transfer (from_account_number,
\* to_account_number, amount); any other body is a transaction
\* (account_number, type, amount, reference_number).
TransactionTypes == {"deposit", "withdrawal", "other"}

CreateTransactionRequests ==
  {[NoReq EXCEPT !.handler = "create-transaction", !.method = "OPTIONS"]} \cup
  {[NoReq EXCEPT !.handler = "create-transaction", !.method = "POST", !.auth = au,
                 !.type = "transfer", !.account_number = f,
                 !.to_account_number = t, !.amount = am] :
     au \in Auths, f \in AcctNums, t \in AcctNums, am \in Amounts} \cup
  {[NoReq EXCEPT !.handler = "create-transaction", !.method = "POST", !.auth = au,
                 !.type = ty, !.account_number = a, !.amount = am,
                 !.reference_number = ref] :
     au \in Auths, ty \in TransactionTypes, a \in AcctNums, am \in Amounts,
     ref \in Refs \cup {NULL}}

\* The handler up to its first call on the store: preflight, authentication,
\* dispatch on body.type and the amount check of the sub-handler.
CreateTransaction_serve(p, r) ==
  /\ Accept(p, r)
  /\ IF r.method = "OPTIONS" THEN Reply(p, 200, "")
     ELSE IF r.auth = "none" THEN Reply(p, 401, "Missing authorization header")
     ELSE IF getUser(r.auth) = NULL THEN Reply(p, 401, "Unauthorized")
     ELSE IF r.amount <= 0 THEN Reply(p, 400, "Amount must be > 0")
     ELSE IF r.type = "transfer"
          THEN Goto(p, "handleTransfer_fromAccount") /\ UNCHANGED resp
          ELSE Goto(p, "handleTransaction_account") /\ UNCHANGED resp
  /\ UNCHANGED <<dbvars, loc, trail>>

CreateTransaction(p) ==
  \E r \in CreateTransactionRequests : CreateTransaction_serve(p, r)

\* ------------------------------------------------------ handleTransaction
handleTransaction_account(p) ==
  /\ pc[p] = "handleTransaction_account"
  /\ \E ok \in BOOLEAN :
       LET rows == SelectAccounts(req[p].account_number, getUser(req[p].auth), "active")
       IN  IF ~ok \/ rows = {}
           THEN /\ Reply(p, 404, "Account not found")
                /\ Mark(p, Called(ok))
                /\ UNCHANGED loc
           ELSE LET a == CHOOSE x \in rows : TRUE
                IN  /\ Mark(p, Called(ok) \cup {"sourceRead"})
                    /\ IF /\ req[p].type = "withdrawal"
                          /\ insufficientFunds(accounts[a].balance, req[p].amount)
                       THEN Reply(p, 400, "Insufficient funds") /\ UNCHANGED loc
                       ELSE /\ loc' = [loc EXCEPT ![p].from = a,
                                                  ![p].fromBalance = accounts[a].balance]
                            /\ Goto(p, "handleTransaction_update")
                            /\ UNCHANGED resp
  /\ UNCHANGED <<dbvars, req, pre>>

\* amountChange = type === "deposit" ? amount : -amount
amountChange(type, amount) == IF type = "deposit" THEN amount ELSE -amount

\* `return handleTransaction(...)` inside the handler's try block: the
\* promise is returned, not awaited, so an error thrown by the sub-handler
\* rejects the handler's own promise and its catch block never runs.
Uncaught(p) == Escape(p)

handleTransaction_update(p) ==
  /\ pc[p] = "handleTransaction_update"
  /\ \E ok \in BOOLEAN :
       IF ok
       THEN /\ accounts' = [accounts EXCEPT ![loc[p].from].balance =
                              loc[p].fromBalance + amountChange(req[p].type, req[p].amount)]
            /\ Mark(p, {"update"})
            /\ Goto(p, "handleTransaction_insert")
            /\ UNCHANGED resp
       ELSE /\ Uncaught(p)
            /\ Mark(p, {"error", "thrown"})
            /\ UNCHANGED accounts
  /\ UNCHANGED <<users, profiles, transactions, transfers, req, loc, pre>>

handleTransaction_insert(p) ==
  /\ pc[p] = "handleTransaction_insert"
  /\ \E ok \in BOOLEAN :
       LET rows ==
             << TransactionRow(req[p].account_number, req[p].type, req[p].amount,
                               loc[p].fromBalance + amountChange(req[p].type, req[p].amount),
                               req[p].reference_number) >>
       IN  IF ok /\ TransactionsInsertable(rows)
           THEN /\ transactions' = transactions \o rows
                /\ Mark(p, {"transactionRows"})
                /\ Reply(p, 201, "")
           ELSE /\ Uncaught(p)
                /\ Mark(p, {"error", "thrown"})
                /\ UNCHANGED transactions
  /\ UNCHANGED <<users, profiles, accounts, transfers, req, loc, pre>>

\* --------------------------------------------------------- handleTransfer
\* No result of a call on the store is checked for an error here.
handleTransfer_fromAccount(p) ==
  /\ pc[p] = "handleTransfer_fromAccount"
  /\ \E ok \in BOOLEAN :
       LET rows == SelectAccounts(req[p].account_number, getUser(req[p].auth), "active")
       IN  IF ~ok \/ rows = {}
           THEN /\ Reply(p, 404, "Source account not found")
                /\ Mark(p, Called(ok))
                /\ UNCHANGED loc
           ELSE LET a == CHOOSE x \in rows : TRUE
                IN  /\ Mark(p, Called(ok) \cup {"sourceRead"})
                    /\ IF insufficientFunds(accounts[a].balance, req[p].amount)
                       THEN Reply(p, 400, "Insufficient funds") /\ UNCHANGED loc
                       ELSE /\ loc' = [loc EXCEPT ![p].from = a,
                                                  ![p].fromBalance = accounts[a].balance]
                            /\ Goto(p, "handleTransfer_toAccount")
                            /\ UNCHANGED resp
  /\ UNCHANGED <<dbvars, req, pre>>

handleTransfer_toAccount(p) ==
  /\ pc[p] = "handleTransfer_toAccount"
  /\ \E ok \in BOOLEAN :
       LET rows == SelectAccounts(req[p].to_account_number, "*", "active")
       IN  /\ Mark(p, Called(ok))
           /\ IF ~ok \/ rows = {}
              THEN Reply(p, 404, "Destination not found") /\ UNCHANGED loc
              ELSE LET a == CHOOSE x \in rows : TRUE
                   IN  /\ loc' = [loc EXCEPT ![p].to = a,
                                             ![p].toBalance = accounts[a].balance]
                       /\ Goto(p, "handleTransfer_refNumber")
                       /\ UNCHANGED resp
  /\ UNCHANGED <<dbvars, req, pre>>

handleTransfer_refNumber(p) ==
  /\ pc[p] = "handleTransfer_refNumber"
  /\ \E ok \in BOOLEAN, ref \in generate_reference_number :
       /\ loc' = [loc EXCEPT ![p].refNumber = IF ok THEN ref ELSE NULL]
       /\ Mark(p, Called(ok))
  /\ Goto(p, "handleTransfer_updateFrom")
  /\ UNCHANGED <<dbvars, req, resp, pre>>

handleTransfer_updateFrom(p) ==
  /\ pc[p] = "handleTransfer_updateFrom"
  /\ \E ok \in BOOLEAN :
       IF ok
       THEN /\ accounts' = [accounts EXCEPT ![loc[p].from].balance =
                              loc[p].fromBalance - req[p].amount]
            /\ Mark(p, {"debit"})
       ELSE /\ Mark(p, {"error"})
            /\ UNCHANGED accounts
  /\ Goto(p, "handleTransfer_updateTo")
  /\ UNCHANGED <<users, profiles, transactions, transfers, req, resp, loc, pre>>

handleTransfer_updateTo(p) ==
  /\ pc[p] = "handleTransfer_updateTo"
  /\ \E ok \in BOOLEAN :
       IF ok
       THEN /\ accounts' = [accounts EXCEPT ![loc[p].to].balance =
                              loc[p].toBalance + req[p].amount]
            /\ Mark(p, {"credit"})
       ELSE /\ Mark(p, {"error", "creditFailed"})
            /\ UNCHANGED accounts
  /\ Goto(p, "handleTransfer_insertTransfer")
  /\ UNCHANGED <<users, profiles, transactions, transfers, req, resp, loc, pre>>

handleTransfer_insertTransfer(p) ==
  /\ pc[p] = "handleTransfer_insertTransfer"
  /\ \E ok \in BOOLEAN :
       LET row == TransferRow(loc[p].from, loc[p].to, req[p].amount, loc[p].refNumber)
       IN  IF ok /\ TransferInsertable(row)
           THEN /\ transfers' = Append(transfers, row)
                /\ Mark(p, {"transferRow"})
           ELSE /\ Mark(p, {"error"})
                /\ UNCHANGED transfers
  /\ Goto(p, "handleTransfer_insertTransactions")
  /\ UNCHANGED <<users, profiles, accounts, transactions, req, resp, loc, pre>>

handleTransfer_insertTransactions(p) ==
  /\ pc[p] = "handleTransfer_insertTransactions"
  /\ \E ok \in BOOLEAN :
       LET rows ==
             << TransactionRow(loc[p].from, "transfer", req[p].amount,
                               loc[p].fromBalance - req[p].amount, loc[p].refNumber),
                TransactionRow(loc[p].to, "transfer", req[p].amount,
                               loc[p].toBalance + req[p].amount, loc[p].refNumber) >>
       IN  IF ok /\ TransactionsInsertable(rows)
           THEN /\ transactions' = transactions \o rows
                /\ Mark(p, {"transactionRows"})
           ELSE /\ Mark(p, {"error"})
                /\ UNCHANGED transactions
  /\ Reply(p, 201, "")
  /\ UNCHANGED <<users, profiles, accounts, transfers, req, loc, pre>>

\* ============================================================= get-balance
\* ?account_number=... or ?user_id=...; account_number wins when both are given.
GetBalanceRequests ==
  {[NoReq EXCEPT !.handler = "get-balance", !.method = "OPTIONS"]} \cup
  {[NoReq EXCEPT !.handler = "get-balance", !.method = "GET", !.auth = au,
                 !.account_number = a, !.user_id = u] :
     au \in Auths, a \in AcctNums \cup {NULL}, u \in Callers \cup {NULL}}

GetBalance(p) ==
  \E r \in GetBalanceRequests :
    /\ Accept(p, r)
    /\ IF r.method = "OPTIONS" THEN Reply(p, 200, "")
       ELSE IF r.account_number = NULL /\ r.user_id = NULL
            THEN Reply(p, 400, "Either account_number or user_id query parameter is required")
       ELSE IF r.auth = "none" THEN Reply(p, 401, "Missing authorization header")
       ELSE IF getUser(r.auth) = NULL THEN Reply(p, 401, "Unauthorized")
       ELSE Goto(p, "getBalance_account") /\ UNCHANGED resp
    /\ UNCHANGED <<dbvars, loc, trail>>

\* maybeSingle(): an error when more than one row matches.
GetBalance_account(p) ==
  /\ pc[p] = "getBalance_account"
  /\ \E ok \in BOOLEAN :
       LET rows == IF req[p].account_number # NULL
                   THEN SelectAccounts(req[p].account_number, "*", "*")
                   ELSE SelectAccounts("*", req[p].user_id, "*")
           single == ok /\ Cardinality(rows) <= 1
       IN  /\ Mark(p, Threw(single))
           /\ IF ~single
              THEN Catch(p) /\ UNCHANGED loc
              ELSE IF rows = {}
              THEN Reply(p, 404, "Account not found") /\ UNCHANGED loc
              ELSE LET a == CHOOSE x \in rows : TRUE
                   IN  IF ~isOwner(accounts[a].user_id, getUser(req[p].auth))
                       THEN /\ Reply(p, 403, "Unauthorized access to this account")
                            /\ UNCHANGED loc
                       ELSE /\ loc' = [loc EXCEPT ![p].from = a,
                                                  ![p].fromBalance = accounts[a].balance]
                            /\ Goto(p, "getBalance_profile")
                            /\ UNCHANGED resp
  /\ UNCHANGED <<dbvars, req, pre>>

GetBalance_profile(p) ==
  /\ pc[p] = "getBalance_profile"
  /\ \E ok \in BOOLEAN :
       /\ Mark(p, Threw(ok))
       /\ IF ok THEN Goto(p, "getBalance_allAccounts") /\ UNCHANGED resp
          ELSE Catch(p)
  /\ UNCHANGED <<dbvars, req, loc, pre>>

GetBalance_allAccounts(p) ==
  /\ pc[p] = "getBalance_allAccounts"
  /\ \E ok \in BOOLEAN :
       /\ Mark(p, Threw(ok))
       /\ IF ok THEN ReplyData(p, 200, loc[p].from)
          ELSE Catch(p)
  /\ UNCHANGED <<dbvars, req, loc, pre>>

\* ======================================================== get-transactions
GetTransactionsRequests ==
  {[NoReq EXCEPT !.handler = "get-transactions", !.method = "OPTIONS"]} \cup
  {[NoReq EXCEPT !.handler = "get-transactions", !.method = "GET", !.auth = au,
                 !.account_number = a] :
     au \in Auths, a \in AcctNums \cup {NULL}}

GetTransactions(p) ==
  \E r \in GetTransactionsRequests :
    /\ Accept(p, r)
    /\ IF r.method = "OPTIONS" THEN Reply(p, 200, "")
       ELSE IF r.auth = "none" THEN Reply(p, 401, "Missing authorization header")
       ELSE IF getUser(r.auth) = NULL THEN Reply(p, 401, "Unauthorized")
       ELSE IF r.account_number = NULL
            THEN Reply(p, 400, "Missing account_number parameter")
       ELSE Goto(p, "getTransactions_account") /\ UNCHANGED resp
    /\ UNCHANGED <<dbvars, loc, trail>>

GetTransactions_account(p) ==
  /\ pc[p] = "getTransactions_account"
  /\ \E ok \in BOOLEAN :
       LET rows == SelectAccounts(req[p].account_number, getUser(req[p].auth), "*")
       IN  /\ Mark(p, Called(ok))
           /\ IF ~ok \/ rows = {}
              THEN Reply(p, 404, "Account not found or unauthorized") /\ UNCHANGED loc
              ELSE /\ loc' = [loc EXCEPT ![p].from = CHOOSE x \in rows : TRUE]
                   /\ Goto(p, "getTransactions_transactions")
                   /\ UNCHANGED resp
  /\ UNCHANGED <<dbvars, req, pre>>

GetTransactions_transactions(p) ==
  /\ pc[p] = "getTransactions_transactions"
  /\ \E ok \in BOOLEAN :
       /\ Mark(p, Threw(ok))
       /\ IF ok THEN Goto(p, "getTransactions_transfers") /\ UNCHANGED resp
          ELSE Catch(p)
  /\ UNCHANGED <<dbvars, req, loc, pre>>

\* The records returned are the transactions of account_number and the
\* transfers from or to the account found.
GetTransactions_transfers(p) ==
  /\ pc[p] = "getTransactions_transfers"
  /\ \E ok \in BOOLEAN :
       /\ Mark(p, Threw(ok))
       /\ IF ok THEN ReplyData(p, 200, loc[p].from)
          ELSE Catch(p)
  /\ UNCHANGED <<dbvars, req, loc, pre>>

\* ============================================================= get-profile
GetProfileRequests ==
  {[NoReq EXCEPT !.handler = "get-profile", !.method = "OPTIONS"]} \cup
  {[NoReq EXCEPT !.handler = "get-profile", !.method = "GET", !.auth = au] :
     au \in Auths}

GetProfile(p) ==
  \E r \in GetProfileRequests :
    /\ Accept(p, r)
    /\ IF r.method = "OPTIONS" THEN Reply(p, 200, "")
       ELSE IF r.auth = "none" THEN Reply(p, 401, "Missing authorization header")
       ELSE IF getUser(r.auth) = NULL THEN Reply(p, 401, "Unauthorized")
       ELSE Goto(p, "getProfile_profile") /\ UNCHANGED resp
    /\ UNCHANGED <<dbvars, loc, trail>>

\* get-profile creating or overwriting the caller's profile as it reads it.
GetProfile_profileUpsert(p) ==
  /\ pc[p] = "getProfile_profile"
  /\ \E ok \in BOOLEAN :
       /\ Mark(p, Threw(ok))
       /\ IF ok
          THEN /\ profiles' = [profiles EXCEPT ![getUser(req[p].auth)] = req[p].auth]
               /\ Goto(p, "getProfile_accounts") /\ UNCHANGED resp
          ELSE Catch(p) /\ UNCHANGED profiles
  /\ UNCHANGED <<users, accounts, transactions, transfers, req, loc, pre>>

GetProfile_profile(p) ==
  /\ pc[p] = "getProfile_profile"
  /\ \E ok \in BOOLEAN :
       /\ Mark(p, Threw(ok))
       /\ IF ok THEN Goto(p, "getProfile_accounts") /\ UNCHANGED resp
          ELSE Catch(p)
  /\ UNCHANGED <<dbvars, req, loc, pre>>

GetProfile_accounts(p) ==
  /\ pc[p] = "getProfile_accounts"
  /\ \E ok \in BOOLEAN :
       /\ Mark(p, Threw(ok))
       /\ IF ok THEN Reply(p, 200, "")
          ELSE Catch(p)
  /\ UNCHANGED <<dbvars, req, loc, pre>>

\* ================================================================== signup
\* A user's id stands for its email: the provider keeps one user per email.
SignupRequests ==
  {[NoReq EXCEPT !.handler = "signup", !.method = "OPTIONS"]} \cup
  {[NoReq EXCEPT !.handler = "signup", !.method = "POST", !.email = e,
                 !.password = pw, !.full_name = n] :
     e \in {NULL, "u1", "u3"}, pw \in {NULL, "pw"}, n \in {NULL, "n3"}}

\* The handler asks for no Authorization header.
Signup(p) ==
  \E r \in SignupRequests :
    /\ Accept(p, r)
    /\ IF r.method = "OPTIONS" THEN Reply(p, 200, "")
       ELSE IF r.email = NULL \/ r.password = NULL \/ r.full_name = NULL
            THEN Reply(p, 400, "Email, password, and full name are required")
       ELSE Goto(p, "signup_signUp") /\ UNCHANGED resp
    /\ UNCHANGED <<dbvars, loc, trail>>

\* The trigger not installed: a new user gets no profiles row.
handle_new_user_absent(id, email, full_name) == profiles

\* handle_new_user(), the AFTER INSERT trigger on auth.users:
\* INSERT INTO profiles (id, full_name)
\*   VALUES (new.id, COALESCE(new.raw_user_meta_data->>'full_name', new.email))
\*   ON CONFLICT (id) DO NOTHING.   full_name is NULL or the metadata's name.
handle_new_user(id, email, full_name) ==
  IF id \in DOMAIN profiles
  THEN profiles
  ELSE profiles @@ (id :> IF full_name # NULL THEN full_name ELSE email)

\* supabase.auth.signUp({email, password}): no metadata is passed.  The
\* provider answers an error (the email is registered, or it fails), no
\* user, or the user it created; creating it fires the trigger.
Signup_signUp(p) ==
  /\ pc[p] = "signup_signUp"
  /\ \E outcome \in {"error", "nouser", "created"} :
       CASE outcome = "error" ->
              /\ Reply(p, 400, "auth error")
              /\ Mark(p, {"idp"})
              /\ UNCHANGED <<users, profiles, loc>>
         [] outcome = "nouser" ->
              /\ Reply(p, 500, "Failed to create user")
              /\ Mark(p, {"idp"})
              /\ UNCHANGED <<users, profiles, loc>>
         [] outcome = "created" ->
              /\ req[p].email \notin users
              /\ users' = users \cup {req[p].email}
              /\ profiles' = handle_new_user(req[p].email, req[p].email, NULL)
              /\ loc' = [loc EXCEPT ![p].from = req[p].email]
              /\ Mark(p, {"idp", "created"})
              /\ Goto(p, "signup_profile")
              /\ UNCHANGED resp
  /\ UNCHANGED <<accounts, transactions, transfers, req, pre>>

\* profiles: id PRIMARY KEY REFERENCES auth.users, full_name NOT NULL
ProfileInsertable(id, full_name) ==
  /\ id \notin DOMAIN profiles
  /\ id \in users
  /\ full_name # NULL

Signup_profile(p) ==
  /\ pc[p] = "signup_profile"
  /\ \E ok \in BOOLEAN :
       IF ok /\ ProfileInsertable(loc[p].from, req[p].full_name)
       THEN /\ profiles' = profiles @@ (loc[p].from :> req[p].full_name)
            /\ Mark(p, {"store", "profileRow"})
            /\ Reply(p, 201, "")
       ELSE /\ Catch(p)
            /\ Mark(p, {"store", "error", "thrown"})
            /\ UNCHANGED profiles
  /\ UNCHANGED <<users, accounts, transactions, transfers, req, loc, pre>>

\* ========================================================== create-account
AccountTypes == {"Current", "Savings", "Credit"}
InitialDeposits == (-1)..MaxAmount

CreateAccountRequests ==
  {[NoReq EXCEPT !.handler = "create-account", !.method = "OPTIONS"]} \cup
  {[NoReq EXCEPT !.handler = "create-account", !.method = "POST", !.auth = au,
                 !.account_type = ty, !.initial_deposit = d] :
     au \in Auths, ty \in {"Savings", "Gold"}, d \in InitialDeposits}

CreateAccount(p) ==
  \E r \in CreateAccountRequests :
    /\ Accept(p, r)
    /\ IF r.method = "OPTIONS" THEN Reply(p, 200, "")
       ELSE IF r.auth = "none" THEN Reply(p, 401, "Missing authorization header")
       ELSE IF getUser(r.auth) = NULL THEN Reply(p, 401, "Unauthorized")
       ELSE IF r.account_type \notin AccountTypes THEN Reply(p, 400, "Invalid account type")
       ELSE Goto(p, "createAccount_accountNumber") /\ UNCHANGED resp
    /\ UNCHANGED <<dbvars, loc, trail>>

\* generate_account_number(): random numbers are drawn until one is the
\* number of no account; the values one call can return.
generate_account_number == AcctNums \ DOMAIN accounts

CreateAccount_accountNumber(p) ==
  /\ pc[p] = "createAccount_accountNumber"
  /\ \E ok \in BOOLEAN :
       /\ Mark(p, Threw(ok))
       /\ IF ok
          THEN /\ \E n \in generate_account_number :
                    loc' = [loc EXCEPT ![p].to = n]
               /\ Goto(p, "createAccount_insert")
               /\ UNCHANGED resp
          ELSE /\ Catch(p)
               /\ UNCHANGED loc
  /\ UNCHANGED <<dbvars, req, pre>>

\* accounts: account_number PRIMARY KEY, user_id REFERENCES profiles,
\* account_type IN ('Current', 'Savings', 'Credit')
AccountInsertable(number, row) ==
  /\ number \notin DOMAIN accounts
  /\ row.user_id \in DOMAIN profiles
  /\ row.account_type \in AccountTypes

CreateAccount_insert(p) ==
  /\ pc[p] = "createAccount_insert"
  /\ \E ok \in BOOLEAN :
       LET row == [user_id |-> getUser(req[p].auth),
                   account_type |-> req[p].account_type,
                   balance |-> req[p].initial_deposit, status |-> "active"]
       IN  IF ok /\ AccountInsertable(loc[p].to, row)
           THEN /\ accounts' = accounts @@ (loc[p].to :> row)
                /\ Mark(p, {"accountRow"})
                /\ IF req[p].initial_deposit > 0
                   THEN Goto(p, "createAccount_refNumber") /\ UNCHANGED resp
                   ELSE ReplyData(p, 201, loc[p].to)
           ELSE /\ Catch(p)
                /\ Mark(p, {"error", "thrown"} \cup
                           IF loc[p].to \in DOMAIN accounts
                           THEN {"numberTaken"} ELSE {})
                /\ UNCHANGED accounts
  /\ UNCHANGED <<users, profiles, transactions, transfers, req, loc, pre>>

CreateAccount_refNumber(p) ==
  /\ pc[p] = "createAccount_refNumber"
  /\ \E ok \in BOOLEAN, ref \in generate_reference_number :
       /\ loc' = [loc EXCEPT ![p].refNumber = IF ok THEN ref ELSE NULL]
       /\ Mark(p, Called(ok))
  /\ Goto(p, "createAccount_transaction")
  /\ UNCHANGED <<dbvars, req, resp, pre>>

\* The initial deposit's transaction record; the outcome of the insert is
\* not looked at.
CreateAccount_transaction(p) ==
  /\ pc[p] = "createAccount_transaction"
  /\ \E ok \in BOOLEAN :
       LET rows ==
             << TransactionRow(loc[p].to, "deposit", req[p].initial_deposit,
                               req[p].initial_deposit, loc[p].refNumber) >>
       IN  IF ok /\ TransactionsInsertable(rows)
           THEN /\ transactions' = transactions \o rows
                /\ Mark(p, {"transactionRows"})
           ELSE /\ Mark(p, {"error"})
                /\ UNCHANGED transactions
  /\ ReplyData(p, 201, loc[p].to)
  /\ UNCHANGED <<users, profiles, accounts, transfers, req, loc, pre>>

\* ==================================================================== Next
Step(p) ==
  \/ Transfer(p)
  \/ Transfer_fromAccount(p)
  \/ Transfer_toAccount(p)
  \/ Transfer_refNumber(p)
  \/ Transfer_updateFrom(p)
  \/ Transfer_updateTo(p)
  \/ Transfer_rollback(p)
  \/ Transfer_insertTransfer(p)
  \/ Transfer_insertTransactions(p)
  \/ CreateTransaction(p)
  \/ handleTransaction_account(p)
  \/ handleTransaction_update(p)
  \/ handleTransaction_insert(p)
  \/ handleTransfer_fromAccount(p)
  \/ handleTransfer_toAccount(p)
  \/ handleTransfer_refNumber(p)
  \/ handleTransfer_updateFrom(p)
  \/ handleTransfer_updateTo(p)
  \/ handleTransfer_insertTransfer(p)
  \/ handleTransfer_insertTransactions(p)
  \/ GetBalance(p)
  \/ GetBalance_account(p)
  \/ GetBalance_profile(p)
  \/ GetBalance_allAccounts(p)
  \/ GetTransactions(p)
  \/ GetTransactions_account(p)
  \/ GetTransactions_transactions(p)
  \/ GetTransactions_transfers(p)
  \/ GetProfile(p)
  \/ GetProfile_profile(p)
  \/ GetProfile_accounts(p)
  \/ Signup(p)
  \/ Signup_signUp(p)
  \/ Signup_profile(p)
  \/ CreateAccount(p)
  \/ CreateAccount_accountNumber(p)
  \/ CreateAccount_insert(p)
  \/ CreateAccount_refNumber(p)
  \/ CreateAccount_transaction(p)

Next == \E p \in SeqProcs : Step(p)

Spec == Init /\ [][Next]_vars

\* ----------------------------------------------------- concurrent signups
\* Signup requests only, served concurrently (one after the other included).
SignupStep(p) ==
  \/ Signup(p)
  \/ Signup_signUp(p)
  \/ Signup_profile(p)

SignupNext == \E p \in Procs : SignupStep(p)

SpecSignup == Init /\ [][SignupNext]_vars

\* -------------------------------------------- concurrent account creation
\* create-account requests only, served concurrently.
CreateAccountStep(p) ==
  \/ CreateAccount(p)
  \/ CreateAccount_accountNumber(p)
  \/ CreateAccount_insert(p)
  \/ CreateAccount_refNumber(p)
  \/ CreateAccount_transaction(p)

CreateAccountNext == \E p \in Procs : CreateAccountStep(p)

SpecCreateAccount == Init /\ [][CreateAccountNext]_vars

\* ------------------------------------------------ concurrent money movement
\* Withdrawals and transfers of the owner of A, served concurrently: u1
\* withdraws from A and transfers from A to B through either transfer
\* handler.
MoneyRequests ==
  {[NoReq EXCEPT !.handler = h, !.method = "POST", !.auth = "u1",
                 !.type = IF h = "transfer" THEN "-" ELSE "transfer",
                 !.account_number = "A", !.to_account_number = "B", !.amount = am] :
     h \in {"transfer", "create-transaction"}, am \in 1..MaxAmount} \cup
  {[NoReq EXCEPT !.handler = "create-transaction", !.method = "POST", !.auth = "u1",
                 !.type = "withdrawal", !.account_number = "A", !.amount = am,
                 !.reference_number = "r2"] :
     am \in 1..MaxAmount}

MoneyStep(p) ==
  \/ \E r \in MoneyRequests : r.handler = "transfer" /\ Transfer_serve(p, r)
  \/ Transfer_fromAccount(p)
  \/ Transfer_toAccount(p)
  \/ Transfer_refNumber(p)
  \/ Transfer_updateFrom(p)
  \/ Transfer_updateTo(p)
  \/ Transfer_rollback(p)
  \/ Transfer_insertTransfer(p)
  \/ Transfer_insertTransactions(p)
  \/ \E r \in MoneyRequests :
       r.handler = "create-transaction" /\ CreateTransaction_serve(p, r)
  \/ handleTransaction_account(p)
  \/ handleTransaction_update(p)
  \/ handleTransaction_insert(p)
  \/ handleTransfer_fromAccount(p)
  \/ handleTransfer_toAccount(p)
  \/ handleTransfer_refNumber(p)
  \/ handleTransfer_updateFrom(p)
  \/ handleTransfer_updateTo(p)
  \/ handleTransfer_insertTransfer(p)
  \/ handleTransfer_insertTransactions(p)

MoneyNext == \E p \in Procs : MoneyStep(p)

\* B is only credited by these requests: it starts empty.
MoneyInit == Init /\ accounts["B"].balance = 0

SpecMoney == MoneyInit /\ [][MoneyNext]_vars

\* ---------------------------------------- concurrent deposits, withdrawals
\* Deposits to and withdrawals from A by its owner, served concurrently.
LedgerRequests ==
  {[NoReq EXCEPT !.handler = "create-transaction", !.method = "POST", !.auth = "u1",
                 !.type = ty, !.account_number = "A", !.amount = am,
                 !.reference_number = ref] :
     ty \in {"deposit", "withdrawal"}, am \in 1..MaxAmount, ref \in Refs \ {"r1"}}

LedgerStep(p) ==
  \/ \E r \in LedgerRequests : CreateTransaction_serve(p, r)
  \/ handleTransaction_account(p)
  \/ handleTransaction_update(p)
  \/ handleTransaction_insert(p)

LedgerNext == \E p \in Procs : LedgerStep(p)

SpecLedger == Init /\ [][LedgerNext]_vars

\* ================================================================== claims
Done(p) == pc[p] = "done"
Authenticated(p) == req[p].auth \in pre[p].users
IsTransfer(p) ==
  /\ req[p].method = "POST"
  /\ \/ req[p].handler = "transfer"
     \/ req[p].handler = "create-transaction" /\ req[p].type = "transfer"
IsTransaction(p) ==
  /\ req[p].method = "POST"
  /\ req[p].handler = "create-transaction"
  /\ req[p].type # "transfer"
Succeeded(p) == resp[p].status \in {200, 201}
LedgerUnchanged(p) ==
  /\ accounts = pre[p].accounts
  /\ transactions = pre[p].transactions
  /\ transfers = pre[p].transfers
\* The source account of the request is one the caller may move money out of.
SourceEligible(p) ==
  /\ req[p].account_number \in DOMAIN pre[p].accounts
  /\ pre[p].accounts[req[p].account_number].user_id = req[p].auth
  /\ pre[p].accounts[req[p].account_number].status = "active"

\* ---- C1
Unauthenticated(p) ==
  /\ req[p].method \in {"POST", "GET"}
  /\ req[p].auth \notin pre[p].users
Untouched(p) ==
  /\ trail[p] \cap {"store", "idp"} = {}
  /\ Store = pre[p]

\* C1, as claimed: in every handler a request without an Authorization
\* header, or with a token the provider rejects, is answered 401 and
\* neither the store nor the identity provider is called or changed.
C1_AuthBeforeStore_AllHandlers ==
  \A p \in Procs :
    Unauthenticated(p) =>
      /\ Untouched(p)
      /\ Done(p) => resp[p].status = 401

\* C1, amended: the same for every handler but signup, which asks for no
\* authorization and creates a user; and get-balance answers 400, not 401,
\* when neither account_number nor user_id is given.
C1_AuthBeforeStore ==
  \A p \in Procs :
    Unauthenticated(p) /\ req[p].handler # "signup" =>
      /\ Untouched(p)
      /\ Done(p) =>
           resp[p].status =
             IF /\ req[p].handler = "get-balance"
                /\ req[p].account_number = NULL
                /\ req[p].user_id = NULL
             THEN 400 ELSE 401

C1_Witness ==
  \E p \in Procs :
    /\ Done(p)
    /\ req[p].handler = "create-transaction"
    /\ req[p].auth = "bad"
    /\ req[p].account_number = "A"
    /\ resp[p].status = 401

\* ---- C2
\* C2, as claimed: in every transfer handler, when the debit of the source
\* was written and the credit of the (other) destination account then
\* failed, and the write of the rollback did not, the source's balance is
\* back at its value before the request and the request ends with an error
\* response.
C2_RollbackOnPartialFailure ==
  \A p \in Procs :
    /\ Done(p) /\ IsTransfer(p)
    /\ req[p].account_number # req[p].to_account_number
    /\ {"debit", "creditFailed"} \subseteq trail[p]
    /\ "rollbackFailed" \notin trail[p]
    => /\ accounts[req[p].account_number].balance =
            pre[p].accounts[req[p].account_number].balance
       /\ resp[p].status >= 400

\* ---- C3
\* C3, as claimed: a transfer between two accounts answered 200 or 201 has
\* moved exactly amount from the source to the destination, whichever
\* write failed.
C3_DoubleEntryConservation ==
  \A p \in Procs :
    /\ Done(p) /\ IsTransfer(p) /\ Succeeded(p)
    /\ req[p].account_number # req[p].to_account_number
    =>
      LET f == req[p].account_number
          t == req[p].to_account_number
      IN  /\ accounts[f].balance = pre[p].accounts[f].balance - req[p].amount
          /\ accounts[t].balance = pre[p].accounts[t].balance + req[p].amount

\* ---- C4
\* C4: a withdrawal or a transfer whose amount is greater than the balance
\* read for the source account is answered 400 'Insufficient funds', and
\* accounts, transactions and transfers are as they were.
C4_InsufficientFundsRefused ==
  \A p \in Procs :
    /\ Done(p)
    /\ IsTransfer(p) \/ (IsTransaction(p) /\ req[p].type = "withdrawal")
    /\ "sourceRead" \in trail[p]
    /\ req[p].amount > pre[p].accounts[req[p].account_number].balance
    => /\ resp[p].status = 400
       /\ resp[p].error = "Insufficient funds"
       /\ LedgerUnchanged(p)

C4_Witness ==
  \E p \in Procs :
    /\ Done(p)
    /\ IsTransaction(p) /\ req[p].type = "withdrawal"
    /\ "sourceRead" \in trail[p]
    /\ req[p].amount = 2
    /\ pre[p].accounts[req[p].account_number].balance = 1
    /\ resp[p].error = "Insufficient funds"

\* ---- C5
\* C5, as claimed: a deposit, withdrawal or transfer of an authenticated
\* caller whose (source) account does not exist, is not the caller's or is
\* not active is answered 404, and no balance changes and no transactions
\* or transfers row is added.
C5_OnlyOwnerMovesMoney_404 ==
  \A p \in Procs :
    /\ Done(p)
    /\ IsTransfer(p) \/ IsTransaction(p)
    /\ Authenticated(p)
    /\ ~SourceEligible(p)
    => /\ resp[p].status = 404
       /\ LedgerUnchanged(p)

\* C5, amended: such a request is answered 404 when its amount is greater
\* than 0 and 400 (the amount check comes first) when it is not; in both
\* cases no balance changes and no row is added.
C5_OnlyOwnerMovesMoney ==
  \A p \in Procs :
    /\ Done(p)
    /\ IsTransfer(p) \/ IsTransaction(p)
    /\ Authenticated(p)
    /\ ~SourceEligible(p)
    => /\ resp[p].status = IF req[p].amount > 0 THEN 404 ELSE 400
       /\ LedgerUnchanged(p)

C5_Witness ==
  \E p \in Procs :
    /\ Done(p)
    /\ IsTransaction(p) /\ req[p].type = "deposit"
    /\ req[p].auth = "u1" /\ req[p].account_number = "B"
    /\ req[p].amount = 1
    /\ "error" \notin trail[p]
    /\ resp[p].status = 404

\* ---- C6
IsRead(p) ==
  /\ req[p].method = "GET"
  /\ req[p].handler \in {"get-balance", "get-transactions"}
\* C6: get-balance and get-transactions answer 200 with the data of an
\* account only when the account is the caller's; asked by account number
\* for an account of someone else, get-balance answers 403 and
\* get-transactions 404, and for a number of no account both answer 404
\* (get-balance answers 500 when its lookup fails); none of these
\* responses carries an account's data.
C6_ReadAccessOwnerOnly ==
  \A p \in Procs :
    Done(p) /\ IsRead(p) =>
      LET a == req[p].account_number
          lookupFailed == req[p].handler = "get-balance" /\ "error" \in trail[p]
      IN  /\ resp[p].account # NULL =>
                /\ Authenticated(p)
                /\ resp[p].account \in DOMAIN accounts
                /\ accounts[resp[p].account].user_id = req[p].auth
          /\ resp[p].status = 200 => resp[p].account # NULL
          /\ Authenticated(p) /\ a \in DOMAIN accounts
               /\ accounts[a].user_id # req[p].auth =>
                /\ resp[p].account = NULL
                /\ resp[p].status =
                     IF lookupFailed THEN 500
                     ELSE IF req[p].handler = "get-balance" THEN 403 ELSE 404
          /\ Authenticated(p) /\ a # NULL /\ a \notin DOMAIN accounts =>
                resp[p].status = IF lookupFailed THEN 500 ELSE 404

C6_Witness ==
  \E p \in Procs :
    /\ Done(p)
    /\ req[p].handler = "get-balance" /\ req[p].method = "GET"
    /\ req[p].auth = "u1" /\ req[p].account_number = "B"
    /\ resp[p].status = 403

\* ---- C7
\* C7, as claimed: in every transfer handler a transfer from an account to
\* itself is refused and leaves the balance of the account as it was.
C7_SameAccountTransferRejected ==
  \A p \in Procs :
    /\ Done(p) /\ IsTransfer(p)
    /\ req[p].account_number = req[p].to_account_number
    => /\ resp[p].status >= 400
       /\ accounts = pre[p].accounts

\* ---- C8
\* C8, as claimed: after a transfer answered 200 or 201 there is one new
\* transfers row (completed, the amount, the reference number) and there
\* are two new transactions rows of type 'transfer', the source's and the
\* destination's, each with the amount, the account's new balance as
\* balance_after and the reference number.
C8_TransferRecords ==
  \A p \in Procs :
    Done(p) /\ IsTransfer(p) /\ Succeeded(p) =>
      LET f == req[p].account_number
          t == req[p].to_account_number
          ref == loc[p].refNumber
          n == Len(pre[p].transfers)
          m == Len(pre[p].transactions)
      IN  /\ ref # NULL
          /\ Len(transfers) = n + 1
          /\ transfers[n + 1] = TransferRow(f, t, req[p].amount, ref)
          /\ Len(transactions) = m + 2
          /\ {transactions[m + 1], transactions[m + 2]} =
               {TransactionRow(f, "transfer", req[p].amount, accounts[f].balance, ref),
                TransactionRow(t, "transfer", req[p].amount, accounts[t].balance, ref)}

\* ---- C9
\* C9, as claimed: when a call on the store fails and the error is thrown
\* in a handler or a sub-handler, the response is the 500 JSON response of
\* the handler's own catch block; no error leaves the handler uncaught.
C9_FailuresCaughtByHandler ==
  \A p \in Procs :
    Done(p) /\ "thrown" \in trail[p] =>
      /\ resp[p].status = 500
      /\ resp[p].by = "handler"

\* ---- C10
\* C10, as claimed: a signup for which the provider creates the user is
\* answered 201, and the user then has one profiles row whose full_name is
\* the full_name of the request.
C10_SignupCreatesProfile ==
  \A p \in Procs :
    Done(p) /\ req[p].handler = "signup" /\ "created" \in trail[p] =>
      /\ resp[p].status = 201
      /\ req[p].email \in DOMAIN profiles
      /\ profiles[req[p].email] = req[p].full_name

\* ---- C11
\* C11: in every state every user of the identity provider has its
\* profiles row (profiles is keyed by the user's id, so it has one),
\* whatever signups, answered 201 or not, have run or are running.
C11_EveryUserHasProfile == users \subseteq DOMAIN profiles

C11_Witness ==
  \E p \in Procs :
    /\ Done(p)
    /\ req[p].handler = "signup"
    /\ "created" \in trail[p]
    /\ resp[p].status = 500
    /\ req[p].email \in users
    /\ req[p].email \notin pre[p].users
    /\ req[p].email \in DOMAIN profiles

\* ---- C12
\* C12, as claimed: after create-account answered 201 to a request with
\* initial_deposit > 0, the new account has a transactions row of type
\* 'deposit' whose amount and balance_after are the initial deposit.
C12_InitialDepositRecorded ==
  \A p \in Procs :
    /\ Done(p)
    /\ req[p].handler = "create-account"
    /\ resp[p].status = 201
    /\ req[p].initial_deposit > 0
    => \E i \in 1..Len(transactions) :
         /\ transactions[i].account_number = resp[p].account
         /\ transactions[i].type = "deposit"
         /\ transactions[i].amount = req[p].initial_deposit
         /\ transactions[i].balance_after = req[p].initial_deposit

\* ---- C13
\* C13, as claimed: whatever create-account requests run, one after the
\* other or interleaved, no two accounts have the same account_number
\* (accounts is keyed by it) and no request fails because the number
\* generated for it was the number of an account when it came to insert.
C13_AccountNumberUnique ==
  \A p \in Procs :
    /\ "numberTaken" \notin trail[p]
    /\ \A q \in Procs :
         /\ p # q
         /\ "accountRow" \in trail[p]
         /\ "accountRow" \in trail[q]
         => loc[p].to # loc[q].to

\* ---- C14
\* C14, as claimed: a reference number returned by
\* generate_reference_number is the reference_number of no transactions
\* row and of no transfers row stored when it is returned.
C14_ReferenceNumberUnique ==
  \A p \in Procs :
    loc[p].refNumber # NULL =>
      /\ RefFree(pre[p].transactions, loc[p].refNumber)
      /\ RefFree(pre[p].transfers, loc[p].refNumber)

\* ---- C15
\* C15: with withdrawals and transfers running concurrently, each read,
\* check and write of a balance a step of its own and every call on the
\* store free to fail, the balance of every account is at least 0 in
\* every state.
C15_BalanceNeverNegative ==
  \A a \in DOMAIN accounts : accounts[a].balance >= 0

\* Two requests that both read A's balance 1 before either wrote it, a
\* withdrawal and a transfer of 1 each: both passed the check, both wrote.
C15_Witness ==
  \E p, q \in Procs :
    /\ p # q
    /\ Done(p) /\ Done(q)
    /\ IsTransaction(p) /\ req[p].type = "withdrawal" /\ req[p].amount = 1
    /\ IsTransfer(q) /\ req[q].amount = 1
    /\ loc[p].from = "A" /\ loc[p].fromBalance = 1
    /\ loc[q].from = "A" /\ loc[q].fromBalance = 1
    /\ "update" \in trail[p]
    /\ "debit" \in trail[q]
    /\ accounts["A"].balance = 0

\* ---- C16
\* C16, as claimed: when two deposits or withdrawals on one account ran
\* concurrently (both arrived before either wrote the balance) and both
\* were answered 201, the balance of the account is its balance before
\* them plus the signed sum of the two amounts.
C16_NoLostUpdate ==
  \A p, q \in Procs :
    /\ p # q
    /\ Done(p) /\ Done(q)
    /\ IsTransaction(p) /\ IsTransaction(q)
    /\ req[p].account_number = req[q].account_number
    /\ resp[p].status = 201 /\ resp[q].status = 201
    /\ pre[p].accounts = pre[q].accounts
    => accounts[req[p].account_number].balance =
         pre[p].accounts[req[p].account_number].balance
           + amountChange(req[p].type, req[p].amount)
           + amountChange(req[q].type, req[q].amount)

\* ---- C17
RECURSIVE SumBalances(_, _)
SumBalances(accts, numbers) ==
  IF numbers = {} THEN 0
  ELSE LET n == CHOOSE x \in numbers : TRUE
       IN  accts[n].balance + SumBalances(accts, numbers \ {n})
TotalBalance(accts) == SumBalances(accts, DOMAIN accts)

\* C17, as claimed: when two transfers ran concurrently (both arrived
\* before either wrote a balance), both were answered with success, and
\* both balance writes and the insert of the transfers row succeeded in
\* each, the sum of the balances of all accounts is what it was before
\* them.
C17_MoneyConserved ==
  \A p, q \in Procs :
    /\ p # q
    /\ Done(p) /\ Done(q)
    /\ IsTransfer(p) /\ IsTransfer(q)
    /\ Succeeded(p) /\ Succeeded(q)
    /\ {"debit", "credit", "transferRow"} \subseteq trail[p]
    /\ {"debit", "credit", "transferRow"} \subseteq trail[q]
    /\ pre[p].accounts = pre[q].accounts
    => TotalBalance(accounts) = TotalBalance(pre[p].accounts)

\* ---- C18
\* C18, as claimed: a transfer that ends with an error response (4xx or
\* 5xx) has changed no balance and added no transfers or transactions row.
C18_TransferAllOrNothing ==
  \A p \in Procs :
    /\ Done(p) /\ IsTransfer(p)
    /\ resp[p].status >= 400
    => LedgerUnchanged(p)

\* ---- C19
\* C19: a request to get-balance, get-transactions or get-profile, and an
\* OPTIONS request to any handler, leaves profiles, accounts, transactions
\* and transfers (and the users) as they were when it arrived, at every
\* step and whatever it is answered.
C19_ReadsHaveNoEffect ==
  \A p \in Procs :
    \/ req[p].handler \in {"get-balance", "get-transactions", "get-profile"}
    \/ req[p].method = "OPTIONS"
    => Store = pre[p]

C19_Witness ==
  \E p \in Procs :
    /\ Done(p)
    /\ req[p].handler = "get-profile" /\ req[p].method = "GET"
    /\ req[p].auth = "u1"
    /\ resp[p].status = 200
    /\ "store" \in trail[p]
====
